---------------------------- MODULE Spec2Model ----------------------------
(***************************************************************************)
(* A model of the captcha-solver browser extension:                        *)
(*   src/content.js            detection, image extraction, fill            *)
(*   src/background.js         message relay, settings form                 *)
(*   src/js/captchaSolverApi.js  configuration read and HTTP client         *)
(*                                                                         *)
(* Text is modelled as a sequence of one-character strings (a longer        *)
(* string stands for a fixed piece of text of the source); " " is the       *)
(* whitespace character.                                                    *)
(***************************************************************************)
EXTENDS Integers, Sequences, FiniteSets, TLC

VARIABLES
  page,        \* the document: images and inputs in document order
  inputValue,  \* inputValue[i]: the value of the i-th input of the page
  domLog,      \* writes and events the content script performed, in order
  timer,       \* the load listener's one-second timer
  nextId,      \* number of runCaptchaBreaker calls / solve messages so far
  kind,        \* kind[a]: what started call a
  pc,          \* pc[a]: where call a (content script, then background) stands
  cand,        \* cand[a]: what findCaptcha returned to call a
  dataUrl,     \* dataUrl[a]: the encoded image of call a
  reply,       \* reply[a]: what sendMessage resolved to in the content script
  storage,     \* chrome.storage.sync, key captchaSolverConfig
  saves,       \* whether the settings form ever stored a record, and the last one
  config,      \* config[m]: what getSolverConfig gave solveCaptcha call m
  requests,    \* requests[m]: the HTTP requests solveCaptcha call m issued
  response,    \* response[m]: what the fetch of call m settled with
  outcome,     \* outcome[m]: how solveCaptcha call m settled
  sent,        \* sent[m]: the replies the background handler sent for m
  trigSent     \* trigSent[a]: the replies the content listener sent for a

vars == <<page, inputValue, domLog, timer, nextId, kind, pc, cand, dataUrl,
          reply, storage, saves, config, requests, response, outcome, sent,
          trigSent>>

-----------------------------------------------------------------------------
(* Bounds of the model *)

\* calls of runCaptchaBreaker, or solve messages, in one behaviour
MaxCalls == 2
\* inputs of a page given to the detector
MaxInputs == 3

Ids == 1..MaxCalls

-----------------------------------------------------------------------------
(* Text *)

Space == " "

\* String.prototype.trim: leading and trailing whitespace removed
RECURSIVE TrimLeft(_)
TrimLeft(s) ==
  IF s # <<>> /\ Head(s) = Space THEN TrimLeft(Tail(s)) ELSE s

RECURSIVE TrimRight(_)
TrimRight(s) ==
  IF s # <<>> /\ s[Len(s)] = Space THEN TrimRight(SubSeq(s, 1, Len(s) - 1)) ELSE s

trim(s) == TrimRight(TrimLeft(s))

\* t occurs in s as a contiguous piece
Carries(s, t) ==
  \E i \in 1..(Len(s) - Len(t) + 1) : SubSeq(s, i, i + Len(t) - 1) = t

-----------------------------------------------------------------------------
(* Detector: findCaptcha, src/content.js 54-112 *)

\* number of entries of captchaImageSelectors and captchaInputSelectors
NumImageSelectors == 6
NumInputSelectors == 7

captchaImageSelectors == 1..NumImageSelectors
captchaInputSelectors == 1..NumInputSelectors

\* document.querySelector(selector) over the images: first match in document
\* order, 0 for null
querySelector(pg, selector) ==
  LET hits == {i \in 1..Len(pg.images) : selector \in pg.images[i].sel}
  IN IF hits = {} THEN 0 ELSE CHOOSE i \in hits : \A j \in hits : i <= j

\* the loop of lines 75-79: the first selector that yields an image
RECURSIVE findImage(_, _)
findImage(pg, selector) ==
  IF selector > NumImageSelectors THEN 0
  ELSE IF querySelector(pg, selector) # 0 THEN querySelector(pg, selector)
  ELSE findImage(pg, selector + 1)

\* captchaImage.closest('form') || document.body : the inputs below that
\* element, in document order
RECURSIVE Filter(_, _, _)
Filter(pg, idxs, keep) ==
  IF idxs = <<>> THEN <<>>
  ELSE IF Head(idxs) \in keep THEN <<Head(idxs)>> \o Filter(pg, Tail(idxs), keep)
  ELSE Filter(pg, Tail(idxs), keep)

parentScope(pg, img) ==
  IF pg.images[img].form # 0
  THEN {i \in 1..Len(pg.inputs) : pg.inputs[i].form = pg.images[img].form}
  ELSE 1..Len(pg.inputs)

\* parent.querySelectorAll(selector): matches in document order
querySelectorAll(pg, img, selector) ==
  Filter(pg, [i \in 1..Len(pg.inputs) |-> i],
         {i \in parentScope(pg, img) : selector \in pg.inputs[i].sel})

\* square of the distance of lines 96-97 between the top-left corners
dist2(pg, img, i) ==
  (pg.images[img].x - pg.inputs[i].x) * (pg.images[img].x - pg.inputs[i].x)
  + (pg.images[img].y - pg.inputs[i].y) * (pg.images[img].y - pg.inputs[i].y)

\* a comparator that reports equal distances as "a after b"
compareDistTieLast(pg, img, a, b) ==
  IF dist2(pg, img, a) = dist2(pg, img, b) THEN 1
  ELSE dist2(pg, img, a) - dist2(pg, img, b)

\* the comparator of lines 92-99, distA - distB; Math.sqrt is strictly
\* increasing, so its sign is the sign of the difference of the squares
compareDist(pg, img, a, b) == dist2(pg, img, a) - dist2(pg, img, b)

\* Array.prototype.sort is stable: an element goes before the first sorted
\* element that compares greater
RECURSIVE insertSorted(_, _, _, _)
insertSorted(pg, img, sorted, e) ==
  IF sorted = <<>> THEN <<e>>
  ELSE IF compareDist(pg, img, Head(sorted), e) > 0 THEN <<e>> \o sorted
  ELSE <<Head(sorted)>> \o insertSorted(pg, img, Tail(sorted), e)

RECURSIVE sortFrom(_, _, _, _)
sortFrom(pg, img, sorted, rest) ==
  IF rest = <<>> THEN sorted
  ELSE sortFrom(pg, img, insertSorted(pg, img, sorted, Head(rest)), Tail(rest))

\* no sort at all: the matches stay in query order
sortByDistanceNone(pg, img, inputs) == inputs

\* inputs.sort(...) of lines 90-99
sortByDistance(pg, img, inputs) == sortFrom(pg, img, <<>>, inputs)

\* the loop of lines 89-104: the nearest match of the first input selector
\* that matches anything, 0 for null
RECURSIVE findInput(_, _, _)
findInput(pg, img, selector) ==
  IF selector > NumInputSelectors THEN 0
  ELSE LET inputs == sortByDistance(pg, img, querySelectorAll(pg, img, selector))
       IN IF Len(inputs) > 0 THEN inputs[1]
          ELSE findInput(pg, img, selector + 1)

NoCaptcha == [found |-> FALSE, image |-> 0, input |-> 0]

findCaptcha(pg) ==
  LET captchaImage == findImage(pg, 1)
  IN IF captchaImage = 0 THEN NoCaptcha
     ELSE LET captchaInput == findInput(pg, captchaImage, 1)
          IN IF captchaInput = 0 THEN NoCaptcha
             ELSE [found |-> TRUE, image |-> captchaImage, input |-> captchaInput]


-----------------------------------------------------------------------------
(* Pages *)

Img(sel, form, x, y, tainted) ==
  [sel |-> sel, form |-> form, x |-> x, y |-> y, tainted |-> tainted]

Inp(sel, form, x, y) == [sel |-> sel, form |-> form, x |-> x, y |-> y]

\* the images the detector is run on: which selectors match, enclosing form
\* (0: none), top-left corner, whether the image taints a canvas
ImageKinds ==
  { Img({2}, 0, 0, 0, FALSE), Img({5}, 1, 0, 0, TRUE), Img({2, 5}, 1, 3, 0, FALSE) }

ImageLists ==
  { <<>> } \cup { <<i>> : i \in ImageKinds }
  \cup { <<Img({5}, 1, 0, 0, TRUE), Img({2}, 0, 3, 0, FALSE)>> }

\* the inputs the detector is run on; (3,4) and (4,3) are equally far from
\* (0,0), and (6,0) is the nearest of the three to (3,0)
InputKinds ==
  { Inp(s, f, p[1], p[2]) :
      s \in { {}, {2}, {6} }, f \in {0, 1},
      p \in { <<3, 4>>, <<4, 3>>, <<6, 0>> } }

InputLists == UNION { [1..n -> InputKinds] : n \in 0..MaxInputs }

DetectPages == [images : ImageLists, inputs : InputLists]

\* the pages the whole extension is run on
Pages ==
  { [images |-> <<>>, inputs |-> <<Inp({1}, 0, 3, 4)>>],
    [images |-> <<Img({2}, 0, 0, 0, FALSE)>>, inputs |-> <<>>],
    [images |-> <<Img({2}, 0, 0, 0, FALSE)>>,
     inputs |-> <<Inp({1}, 0, 3, 4), Inp({1}, 0, 4, 3)>>],
    [images |-> <<Img({3}, 1, 0, 0, TRUE)>>,
     inputs |-> <<Inp({6}, 0, 1, 1), Inp({6}, 1, 6, 0)>>] }

-----------------------------------------------------------------------------
(* Values *)

NoUrl == [from |-> "none", status |-> 0]
NoReply == [kind |-> "none", text |-> <<>>]
NoConfig == [apiUrl |-> <<>>, apiKey |-> <<>>, read |-> FALSE]
Pending == [kind |-> "pending", value |-> <<>>]
Resolved(v) == [kind |-> "resolved", value |-> v]
Rejected(msg) == [kind |-> "rejected", value |-> msg]

Empty == [present |-> FALSE, apiUrl |-> <<>>, apiKey |-> <<>>]

\* DEFAULT_SOLVER_CONFIG, src/js/captchaSolverApi.js 20-23
DEFAULT_SOLVER_CONFIG == [apiUrl |-> <<"http://localhost:8000/ocr">>, apiKey |-> <<>>]

NotConfigured == <<"Captcha solver API URL is not configured.">>
ApiErrorPrefix == <<"Captcha solver API error: ">>
UnknownError == <<"Unknown error">>
NoValidSolution == <<"Captcha solver API did not return a valid solution.">>
FailedToFetch == <<"Failed to fetch">>
JsonSyntaxError == <<"Unexpected token in JSON">>
NullMessageTypeError == <<"Cannot read properties of null (reading 'message')">>

-----------------------------------------------------------------------------
(* Solver client: src/js/captchaSolverApi.js *)

\* a client that keeps the configuration the previous call read
getSolverConfigCached(m, store) ==
  IF m > 1 /\ config[m - 1].read
  THEN [apiUrl |-> config[m - 1].apiUrl, apiKey |-> config[m - 1].apiKey]
  ELSE IF store.present
  THEN [apiUrl |-> store.apiUrl, apiKey |-> store.apiKey]
  ELSE DEFAULT_SOLVER_CONFIG

\* getSolverConfig, lines 30-36, for call m: result.captchaSolverConfig ||
\* DEFAULT_SOLVER_CONFIG
getSolverConfig(m, store) ==
  IF store.present
  THEN [apiUrl |-> store.apiUrl, apiKey |-> store.apiKey]
  ELSE DEFAULT_SOLVER_CONFIG

\* a guard that never fires
urlMissingNever(apiUrl) == FALSE

\* the guard of line 61, !apiUrl
urlMissing(apiUrl) == apiUrl = <<>>

\* the request of lines 66-74: one form field, X-API-Key only for a key
buildRequest(cfg, imageDataUrl) ==
  [url |-> cfg.apiUrl, hasKeyHeader |-> cfg.apiKey # <<>>, key |-> cfg.apiKey,
   image |-> imageDataUrl]

\* the bodies a response can carry: not JSON, the JSON value null, or a
\* JSON object with optional fields data and message
Body(json, hasData, data, hasMessage, message) ==
  [json |-> json, hasData |-> hasData, data |-> data,
   hasMessage |-> hasMessage, message |-> message]

NotJson == Body("invalid", FALSE, <<>>, FALSE, <<>>)
JsonNull == Body("null", FALSE, <<>>, FALSE, <<>>)
JsonObject(hasData, data, hasMessage, message) ==
  Body("object", hasData, data, hasMessage, message)

NetworkError == [net |-> FALSE, ok |-> FALSE, statusText |-> <<>>, body |-> NotJson]
Response(ok, statusText, body) ==
  [net |-> TRUE, ok |-> ok, statusText |-> statusText, body |-> body]

\* an error that never carries what the service said
errorMessageUnknown(resp) == ApiErrorPrefix \o UnknownError

\* lines 77-78: errorData.message || 'Unknown error', errorData being the
\* parsed body or {message: response.statusText} when the parse fails
errorMessage(resp) ==
  LET message == IF resp.body.json = "invalid" THEN resp.statusText
                 ELSE IF resp.body.hasMessage THEN resp.body.message
                 ELSE <<>>
  IN ApiErrorPrefix \o (IF message # <<>> THEN message ELSE UnknownError)

\* a client that trims the solved text
solutionTrimmed(data) == trim(data)

\* line 86: return data.data
solution(data) == data

\* lines 76-86 (and the rethrow of 87-90), for a settled fetch
solveFromResponse(resp) ==
  IF ~resp.net THEN Rejected(FailedToFetch)
  ELSE IF ~resp.ok
    THEN IF resp.body.json = "null" THEN Rejected(NullMessageTypeError)
         ELSE Rejected(errorMessage(resp))
  ELSE IF resp.body.json = "invalid" THEN Rejected(JsonSyntaxError)
  ELSE IF resp.body.json = "null" \/ ~resp.body.hasData \/ resp.body.data = <<>>
    THEN Rejected(NoValidSolution)
  ELSE Resolved(solution(resp.body.data))

\* what the solver service is made to answer
SolvedTexts == { <<>>, <<"A", "B">>, <<" ", "A", " ">> }
Messages == { <<>>, <<"b", "a", "d">> }
StatusTexts == { <<>>, <<"E", "r", "r">> }

OkBodies ==
  { NotJson, JsonNull, JsonObject(FALSE, <<>>, FALSE, <<>>) }
  \cup { JsonObject(TRUE, d, FALSE, <<>>) : d \in SolvedTexts }

ErrorBodies ==
  { JsonNull, JsonObject(FALSE, <<>>, FALSE, <<>>) }
  \cup { JsonObject(FALSE, <<>>, TRUE, t) : t \in Messages }

NoResponse == [net |-> FALSE, ok |-> FALSE, statusText |-> <<"none">>, body |-> NotJson]

Responses ==
  { NetworkError }
  \cup { Response(TRUE, <<>>, b) : b \in OkBodies }
  \cup { Response(FALSE, t, NotJson) : t \in StatusTexts }
  \cup { Response(FALSE, <<"E", "r", "r">>, b) : b \in ErrorBodies }

FewResponses ==
  { NetworkError,
    Response(TRUE, <<>>, JsonObject(TRUE, <<"A", "B">>, FALSE, <<>>)),
    Response(TRUE, <<>>, JsonObject(TRUE, <<>>, FALSE, <<>>)),
    Response(FALSE, <<"E", "r", "r">>, JsonObject(FALSE, <<>>, TRUE, <<"b", "a", "d">>)) }

\* what is typed into the settings form
FormUrls == { <<" ">>, <<" ", "v", " ">> }
FormKeys == { <<>>, <<"k", " ">> }
FewFormUrls == { <<" ">> }
FewFormKeys == { <<>> }

-----------------------------------------------------------------------------
(* Initial states *)

InitWith(pages) ==
  /\ page \in pages
  /\ inputValue = [i \in 1..Len(page.inputs) |-> <<>>]
  /\ domLog = <<>>
  /\ timer = "none"
  /\ nextId = 0
  /\ kind = [a \in Ids |-> "none"]
  /\ pc = [a \in Ids |-> "idle"]
  /\ cand = [a \in Ids |-> NoCaptcha]
  /\ dataUrl = [a \in Ids |-> NoUrl]
  /\ reply = [a \in Ids |-> NoReply]
  /\ storage = Empty
  /\ saves = [any |-> FALSE, last |-> Empty]
  /\ config = [a \in Ids |-> NoConfig]
  /\ requests = [a \in Ids |-> <<>>]
  /\ response = [a \in Ids |-> NoResponse]
  /\ outcome = [a \in Ids |-> Pending]
  /\ sent = [a \in Ids |-> <<>>]
  /\ trigSent = [a \in Ids |-> <<>>]

Init == InitWith(Pages)

contentVars == <<inputValue, domLog, timer, kind, cand, reply, trigSent>>
backgroundVars == <<config, requests, response, outcome, sent>>
settingsVars == <<storage, saves>>

-----------------------------------------------------------------------------
(* Content script: src/content.js *)

\* the load listener of lines 153-155 arms the timer
WindowLoad ==
  /\ timer = "none"
  /\ timer' = "pending"
  /\ UNCHANGED <<page, inputValue, domLog, nextId, kind, pc, cand, dataUrl,
                 reply, trigSent>>
  /\ UNCHANGED backgroundVars
  /\ UNCHANGED settingsVars

\* runCaptchaBreaker up to its first await (lines 117-119): findCaptcha has
\* no await of its own and runs to its end inside the call
runStart(a, k) ==
  /\ a = nextId + 1
  /\ nextId' = a
  /\ kind' = [kind EXCEPT ![a] = k]
  /\ cand' = [cand EXCEPT ![a] = findCaptcha(page)]
  /\ pc' = [pc EXCEPT ![a] = "found"]
  /\ UNCHANGED <<page, inputValue, domLog, dataUrl, reply, trigSent>>
  /\ UNCHANGED backgroundVars
  /\ UNCHANGED settingsVars

\* the timer of line 154 calls runCaptchaBreaker
TimerFire ==
  /\ timer = "pending"
  /\ timer' = "fired"
  /\ \E a \in Ids : runStart(a, "load")

\* the listener of lines 158-163 calls runCaptchaBreaker
Trigger ==
  /\ \E a \in Ids : runStart(a, "trigger")
  /\ UNCHANGED timer

\* the run is over: its locals are gone
finish(a) ==
  /\ pc' = [pc EXCEPT ![a] = "done"]
  /\ cand' = [cand EXCEPT ![a] = NoCaptcha]
  /\ dataUrl' = [dataUrl EXCEPT ![a] = NoUrl]

\* getImageDataUrl resolved (lines 31, 39) and line 129 sends the message
send(a, url) ==
  /\ pc' = [pc EXCEPT ![a] = "sending"]
  /\ dataUrl' = [dataUrl EXCEPT ![a] = url]
  /\ UNCHANGED cand

\* lines 121-127 and 14-35: no candidate ends the run; otherwise the image
\* is drawn on a canvas: no 2D context rejects, an untainted canvas gives
\* the data URL, a tainted one starts the fetch of img.src
AfterFind(a) ==
  /\ pc[a] = "found"
  /\ IF ~cand[a].found THEN finish(a)
     ELSE \E ctx \in BOOLEAN :
            IF ~ctx THEN finish(a)
            ELSE IF ~page.images[cand[a].image].tainted
              THEN send(a, [from |-> "canvas", status |-> 0])
            ELSE /\ pc' = [pc EXCEPT ![a] = "imgFetch"]
                 /\ UNCHANGED <<cand, dataUrl>>
  /\ UNCHANGED <<page, inputValue, domLog, timer, nextId, kind, reply, trigSent>>
  /\ UNCHANGED backgroundVars
  /\ UNCHANGED settingsVars

\* the statuses the fetch of the image answers with
ImageStatuses == {200, 404}

\* lines 35-36 and 43: the fetch rejects (network error), or resolves with a
\* response of any status, whose blob is then read
ImgFetchSettle(a) ==
  /\ pc[a] = "imgFetch"
  /\ \/ finish(a)
     \/ \E st \in ImageStatuses :
          /\ pc' = [pc EXCEPT ![a] = "imgBlob"]
          /\ dataUrl' = [dataUrl EXCEPT ![a] = [from |-> "response", status |-> st]]
          /\ UNCHANGED cand
  /\ UNCHANGED <<page, inputValue, domLog, timer, nextId, kind, reply, trigSent>>
  /\ UNCHANGED backgroundVars
  /\ UNCHANGED settingsVars

\* lines 36-43: the blob is read into a data URL, or the read fails
ImgBlobRead(a) ==
  /\ pc[a] = "imgBlob"
  /\ \/ send(a, [from |-> "fetch", status |-> dataUrl[a].status])
     \/ finish(a)
  /\ UNCHANGED <<page, inputValue, domLog, timer, nextId, kind, reply, trigSent>>
  /\ UNCHANGED backgroundVars
  /\ UNCHANGED settingsVars

\* a fill that dispatches change before input
fillChangeFirst(a, input, text) ==
  << [op |-> "value", el |-> input, by |-> a, text |-> text],
     [op |-> "change", el |-> input, by |-> a, text |-> <<>>],
     [op |-> "input", el |-> input, by |-> a, text |-> <<>>] >>

\* lines 136-139: the write and the two events, in program order
fill(a, input, text) ==
  << [op |-> "value", el |-> input, by |-> a, text |-> text],
     [op |-> "input", el |-> input, by |-> a, text |-> <<>>],
     [op |-> "change", el |-> input, by |-> a, text |-> <<>>] >>

\* a test that takes any reply for a solution
hasSolutionAlways(r) == r.kind \in {"solution", "error"}

\* line 134: response && response.solution
hasSolution(r) == r.kind = "solution" /\ r.text # <<>>

RECURSIVE applyLog(_, _)
applyLog(values, events) ==
  IF events = <<>> THEN values
  ELSE applyLog(IF Head(events).op = "value"
                THEN [values EXCEPT ![Head(events).el] = Head(events).text]
                ELSE values,
                Tail(events))

\* lines 134-145 for a settled sendMessage
onResponse(a, r) ==
  /\ reply' = [reply EXCEPT ![a] = r]
  /\ IF hasSolution(r)
     THEN /\ domLog' = domLog \o fill(a, cand[a].input, r.text)
          /\ inputValue' = applyLog(inputValue, fill(a, cand[a].input, r.text))
     ELSE UNCHANGED <<domLog, inputValue>>
  /\ finish(a)

\* the message does not reach a listener that answers: sendMessage rejects,
\* or resolves with undefined
MessageFail(a) ==
  /\ pc[a] = "sending"
  /\ \E k \in {"undefined", "rejected"} : onResponse(a, [kind |-> k, text |-> <<>>])
  /\ UNCHANGED <<page, timer, nextId, kind, trigSent>>
  /\ UNCHANGED backgroundVars
  /\ UNCHANGED settingsVars

\* the reply of the background handler reaches the content script
ReceiveReply(a) ==
  /\ pc[a] = "replying"
  /\ onResponse(a, sent[a][1])
  /\ UNCHANGED <<page, timer, nextId, kind, trigSent>>
  /\ UNCHANGED backgroundVars
  /\ UNCHANGED settingsVars

\* a listener that answers as soon as runCaptchaBreaker has returned its
\* promise
settledAtOnce(a) == pc[a] \notin {"idle", "answered"}

\* line 160, .then: the promise of runCaptchaBreaker has resolved
settled(a) == pc[a] = "done"

\* line 160: runCaptchaBreaker().then(() => sendResponse({status: 'completed'}))
TriggerAnswer(a) ==
  /\ kind[a] = "trigger"
  /\ settled(a)
  /\ pc' = [pc EXCEPT ![a] = "answered"]
  /\ trigSent' = [trigSent EXCEPT ![a] = Append(trigSent[a], "completed")]
  /\ UNCHANGED <<page, inputValue, domLog, timer, nextId, kind, cand, dataUrl, reply>>
  /\ UNCHANGED backgroundVars
  /\ UNCHANGED settingsVars

-----------------------------------------------------------------------------
(* Background: src/background.js 25-43 and src/js/captchaSolverApi.js 57-91 *)

\* lines 26-31: the handler calls solveCaptcha, which asks storage for the
\* configuration (line 58)
handle(m) ==
  /\ pc' = [pc EXCEPT ![m] = "bgConfig"]
  /\ UNCHANGED backgroundVars
  /\ UNCHANGED settingsVars

\* the message of content.js line 129 reaches the handler
BgReceive(a) ==
  /\ pc[a] = "sending"
  /\ handle(a)
  /\ UNCHANGED <<page, nextId, dataUrl>>
  /\ UNCHANGED contentVars

\* a solveCaptcha message from a content script of some tab
EnvMessage(m) ==
  /\ m = nextId + 1
  /\ nextId' = m
  /\ dataUrl' = [dataUrl EXCEPT ![m] = [from |-> "canvas", status |-> 0]]
  /\ handle(m)
  /\ UNCHANGED page
  /\ UNCHANGED contentVars

\* lines 58-74: the configuration arrives; an empty URL throws, otherwise
\* the request is issued
BgConfig(m) ==
  /\ pc[m] = "bgConfig"
  /\ LET cfg == getSolverConfig(m, storage)
     IN /\ config' = [config EXCEPT ![m] =
                        [apiUrl |-> cfg.apiUrl, apiKey |-> cfg.apiKey, read |-> TRUE]]
        /\ IF urlMissing(cfg.apiUrl)
           THEN /\ outcome' = [outcome EXCEPT ![m] = Rejected(NotConfigured)]
                /\ pc' = [pc EXCEPT ![m] = "bgSettled"]
                /\ UNCHANGED requests
           ELSE /\ requests' = [requests EXCEPT ![m] =
                                  Append(requests[m], buildRequest(cfg, dataUrl[m]))]
                /\ pc' = [pc EXCEPT ![m] = "bgFetch"]
                /\ UNCHANGED outcome
  /\ UNCHANGED <<page, nextId, dataUrl, response, sent>>
  /\ UNCHANGED contentVars
  /\ UNCHANGED settingsVars

\* lines 68-90: the fetch settles and solveCaptcha settles with it (the
\* read of the body, lines 77 and 81, is part of the step)
BgFetchSettle(m, answers) ==
  /\ pc[m] = "bgFetch"
  /\ \E resp \in answers :
       /\ response' = [response EXCEPT ![m] = resp]
       /\ outcome' = [outcome EXCEPT ![m] = solveFromResponse(resp)]
  /\ pc' = [pc EXCEPT ![m] = "bgSettled"]
  /\ UNCHANGED <<page, nextId, dataUrl, config, requests, sent>>
  /\ UNCHANGED contentVars
  /\ UNCHANGED settingsVars

\* a handler without the catch of lines 36-39
sendResponsesNoCatch(out) ==
  IF out.kind = "resolved"
  THEN << [kind |-> "solution", text |-> out.value] >>
  ELSE << >>

\* background.js 32-39: the calls of sendResponse for a settled solveCaptcha
sendResponses(out) ==
  IF out.kind = "resolved"
  THEN << [kind |-> "solution", text |-> out.value] >>
  ELSE << [kind |-> "error", text |-> out.value] >>

\* background.js 32-39; the call is over and its locals are gone
BgReply(m) ==
  /\ pc[m] = "bgSettled"
  /\ sent' = [sent EXCEPT ![m] = sent[m] \o sendResponses(outcome[m])]
  /\ pc' = [pc EXCEPT ![m] = "replying"]
  /\ config' = [config EXCEPT ![m] = NoConfig]
  /\ requests' = [requests EXCEPT ![m] = <<>>]
  /\ response' = [response EXCEPT ![m] = NoResponse]
  /\ outcome' = [outcome EXCEPT ![m] = Pending]
  /\ UNCHANGED <<page, nextId, dataUrl>>
  /\ UNCHANGED contentVars
  /\ UNCHANGED settingsVars

-----------------------------------------------------------------------------
(* Settings form: src/background.js 99-109 *)

\* lines 101-104
newConfig(urlField, keyField) ==
  [present |-> TRUE, apiUrl |-> trim(urlField), apiKey |-> trim(keyField)]

\* lines 99-109: the submit handler stores the trimmed fields
Save(urlField, keyField) ==
  /\ storage' = newConfig(urlField, keyField)
  /\ saves' = [any |-> TRUE, last |-> newConfig(urlField, keyField)]
  /\ UNCHANGED <<page, nextId, pc, dataUrl>>
  /\ UNCHANGED contentVars
  /\ UNCHANGED backgroundVars

-----------------------------------------------------------------------------
(* Specifications *)

\* one step of call a, whatever the environment answers
Step(a) ==
  \/ AfterFind(a)
  \/ ImgFetchSettle(a)
  \/ ImgBlobRead(a)
  \/ MessageFail(a)
  \/ BgReceive(a)
  \/ BgConfig(a)
  \/ BgFetchSettle(a, FewResponses)
  \/ BgReply(a)
  \/ ReceiveReply(a)
  \/ TriggerAnswer(a)

\* the whole extension on one page
Next ==
  \/ WindowLoad
  \/ TimerFire
  \/ Trigger
  \/ \E a \in Ids : Step(a)
  \/ \E u \in FewFormUrls, k \in FewFormKeys : Save(u, k)

Spec == Init /\ [][Next]_vars

\* the content script answering triggers, with the background behind it:
\* the load timer is not armed and the settings are left as installed
NextTrigger ==
  \/ Trigger
  \/ \E a \in Ids : Step(a)

\* every pending asynchronous operation of every run completes
FairSpec == Init /\ [][NextTrigger]_vars /\ \A a \in Ids : WF_vars(Step(a))

\* the background alone, with every answer of the solver service
NextSolver ==
  \/ \E m \in Ids : EnvMessage(m)
  \/ \E m \in Ids : BgConfig(m)
  \/ \E m \in Ids : BgFetchSettle(m, Responses)
  \/ \E m \in Ids : BgReply(m)
  \/ \E u \in FormUrls, k \in FormKeys : Save(u, k)

SpecSolver == InitWith({ [images |-> <<>>, inputs |-> <<>>] }) /\ [][NextSolver]_vars

\* the detector alone, on every page of DetectPages
NextDetect == Trigger

SpecDetect == InitWith(DetectPages) /\ [][NextDetect]_vars

-----------------------------------------------------------------------------
(* Claims *)

\* C1: a solveCaptcha call whose configuration has an empty endpoint URL
\* fails with the configuration error and issues no HTTP request, whatever
\* the image and the API key
C1_EmptyUrlFailsBeforeRequest ==
  \A m \in Ids :
    (config[m].read /\ config[m].apiUrl = <<>>)
      => /\ pc[m] = "bgSettled"
         /\ requests[m] = <<>>
         /\ response[m] = NoResponse
         /\ outcome[m] = Rejected(NotConfigured)

\* C1 happens: a call read a stored record with an empty URL and a key
C1_Witness ==
  \E m \in Ids :
    /\ config[m].read
    /\ config[m].apiUrl = <<>>
    /\ config[m].apiKey # <<>>
    /\ outcome[m].kind = "rejected"

\* the reply the handler owes a settled call
ReplyFor(out) ==
  IF out.kind = "resolved"
  THEN [kind |-> "solution", text |-> out.value]
  ELSE [kind |-> "error", text |-> out.value]

\* C2: a solveCaptcha message gets no reply before its call has settled and
\* exactly one after: {solution: s} when the call resolved to s, {error:
\* message} when it failed
C2_ExactlyOneReply ==
  /\ [](\A m \in Ids :
          /\ pc[m] \in {"idle", "bgConfig", "bgFetch", "bgSettled"} => sent[m] = <<>>
          /\ pc[m] = "replying" => Len(sent[m]) = 1)
  /\ [][\A m \in Ids :
          (pc[m] = "bgSettled" /\ pc'[m] # "bgSettled")
            => /\ outcome[m].kind \in {"resolved", "rejected"}
               /\ sent'[m] = <<ReplyFor(outcome[m])>>]_vars
  /\ [][\A m \in Ids : sent[m] # <<>> => sent'[m] = sent[m]]_vars

\* C2 happens: one message was answered with a solution, another with the
\* error of a failed call
C2_Witness ==
  \E m, n \in Ids :
    /\ pc[m] = "replying" /\ sent[m][1].kind = "solution"
    /\ pc[n] = "replying" /\ sent[n][1] = [kind |-> "error", text |-> NotConfigured]

\* the response of call m is a success with a JSON object that has a data field
OkWithData(m) ==
  /\ pc[m] = "bgSettled"
  /\ response[m].net
  /\ response[m].ok
  /\ response[m].body.json = "object"
  /\ response[m].body.hasData

\* C4 as stated: on a success status and a body with a field data, the call
\* resolves to that value, for every string the field can hold
C4_AsStated ==
  \A m \in Ids : OkWithData(m) => outcome[m] = Resolved(response[m].body.data)

\* C4 amended: the same for every non-empty string; the empty string is
\* rejected with the "no valid solution" error
C4_VerbatimNonEmpty ==
  \A m \in Ids :
    OkWithData(m)
      => outcome[m] = IF response[m].body.data # <<>>
                      THEN Resolved(response[m].body.data)
                      ELSE Rejected(NoValidSolution)

\* C4 happens: a solution with leading and trailing whitespace came back
C4_Witness ==
  \E m \in Ids :
    /\ OkWithData(m)
    /\ response[m].body.data = <<" ", "A", " ">>
    /\ outcome[m].kind = "resolved"

\* C5: on a non-success status the call fails, never resolves; the error
\* message carries the body's message field when the body is JSON with that
\* field, and the status text when the body is not JSON
C5_ErrorCarriesMessage ==
  \A m \in Ids :
    (pc[m] = "bgSettled" /\ response[m].net /\ ~response[m].ok)
      => /\ outcome[m].kind = "rejected"
         /\ (response[m].body.json = "object" /\ response[m].body.hasMessage)
              => Carries(outcome[m].value, response[m].body.message)
         /\ response[m].body.json = "invalid"
              => Carries(outcome[m].value, response[m].statusText)

\* C5 happens: one call failed on a JSON body with a message, another on a
\* body that is not JSON, under a status text
C5_Witness ==
  \E m, n \in Ids :
    /\ pc[m] = "bgSettled" /\ response[m].net /\ ~response[m].ok
    /\ response[m].body.json = "object"
    /\ response[m].body.message = <<"b", "a", "d">>
    /\ outcome[m].kind = "rejected"
    /\ pc[n] = "bgSettled" /\ response[n].net /\ ~response[n].ok
    /\ response[n].body.json = "invalid"
    /\ response[n].statusText = <<"E", "r", "r">>
    /\ outcome[n].kind = "rejected"

\* the record a read of storage must give, from what the form stored last
LatestSaved ==
  IF ~saves.any
  THEN [apiUrl |-> DEFAULT_SOLVER_CONFIG.apiUrl,
        apiKey |-> DEFAULT_SOLVER_CONFIG.apiKey, read |-> TRUE]
  ELSE [apiUrl |-> saves.last.apiUrl, apiKey |-> saves.last.apiKey, read |-> TRUE]

\* C8: every solveCaptcha call uses the record most recently saved when it
\* reads the configuration, the default when nothing was saved, and its
\* request goes to that record's URL with that record's key
C8_FreshConfig ==
  [][\A m \in Ids :
       (pc[m] = "bgConfig" /\ pc'[m] # "bgConfig")
         => /\ config'[m] = LatestSaved
            /\ requests'[m] # <<>>
                 => /\ Len(requests'[m]) = 1
                    /\ requests'[m][1].url = LatestSaved.apiUrl
                    /\ requests'[m][1].key = LatestSaved.apiKey
                    /\ requests'[m][1].hasKeyHeader = (LatestSaved.apiKey # <<>>)]_vars

\* C8 happens: two calls in progress, the first on the default, the second
\* on a record saved in between
C8_Witness ==
  /\ config[1].read /\ config[1].apiUrl = DEFAULT_SOLVER_CONFIG.apiUrl
  /\ config[2].read /\ config[2].apiUrl = <<"v">> /\ config[2].apiKey = <<"k">>
  /\ saves.any


\* the first input selector with a match inside the scope of image img, 0
\* when none has one
FirstMatchingSelector(pg, img) ==
  LET hit == {k \in captchaInputSelectors :
                \E i \in parentScope(pg, img) : k \in pg.inputs[i].sel}
  IN IF hit = {} THEN 0 ELSE CHOOSE k \in hit : \A j \in hit : k <= j

\* the inputs of the scope of image img that selector k matches
MatchesOf(pg, img, k) == {i \in parentScope(pg, img) : k \in pg.inputs[i].sel}

\* C7: the input findCaptcha returns is a match of the first input selector
\* that matches anything in the scope of the found image, no match of that
\* selector is nearer to the image, and no match as near comes earlier in
\* the document; with no match at all, and only then, nothing is returned
C7_NearestOfFirstSelector ==
  \A a \in Ids :
    (pc[a] = "found" /\ findImage(page, 1) # 0)
      => LET img == findImage(page, 1)
             k == FirstMatchingSelector(page, img)
         IN IF k = 0 THEN cand[a] = NoCaptcha
            ELSE /\ cand[a].found
                 /\ cand[a].image = img
                 /\ cand[a].input \in MatchesOf(page, img, k)
                 /\ \A i \in MatchesOf(page, img, k) :
                      /\ dist2(page, img, cand[a].input) <= dist2(page, img, i)
                      /\ dist2(page, img, cand[a].input) = dist2(page, img, i)
                           => cand[a].input <= i

\* C7 happens: two matches of the first matching selector are equally near,
\* a third is farther and comes first, and an input that only a later
\* selector matches is nearer than all of them
C7_Witness ==
  \E a \in Ids :
    /\ pc[a] = "found"
    /\ cand[a].found
    /\ cand[a].input = 2
    /\ Len(page.inputs) >= 3
    /\ LET img == cand[a].image
           k == FirstMatchingSelector(page, img)
       IN /\ {1, 2, 3} \subseteq MatchesOf(page, img, k)
          /\ dist2(page, img, 1) > dist2(page, img, 2)
          /\ dist2(page, img, 3) = dist2(page, img, 2)

\* C7 happens too: an earlier selector pre-empts a nearer match of a later one
C7_WitnessPriority ==
  \E a \in Ids :
    /\ pc[a] = "found"
    /\ cand[a].found
    /\ \E i \in parentScope(page, cand[a].image) :
         /\ page.inputs[i].sel # {}
         /\ dist2(page, cand[a].image, i) < dist2(page, cand[a].image, cand[a].input)

\* C9 as stated: a data URL comes out of the fallback only when the fetch
\* of the image's source answered 200
C9_AsStated ==
  \A a \in Ids : dataUrl[a].from = "fetch" => dataUrl[a].status = 200

\* the writes and events of call a, in order
RECURSIVE EventsBy(_, _)
EventsBy(a, events) ==
  IF events = <<>> THEN <<>>
  ELSE IF Head(events).by = a THEN <<Head(events)>> \o EventsBy(a, Tail(events))
  ELSE EventsBy(a, Tail(events))

\* C6: when the reply to a run is {solution: s}, the detected input's value
\* becomes s, and then an input event and a change event are dispatched on
\* that input, in that order, after the write
C6_FillThenEvents ==
  [][\A a \in Ids :
       (pc[a] = "replying" /\ pc'[a] # "replying" /\ sent[a][1].kind = "solution")
         => LET i == cand[a].input
                s == sent[a][1].text
            IN /\ cand[a].found
               /\ inputValue'[i] = s
               /\ domLog' = domLog \o
                    << [op |-> "value", el |-> i, by |-> a, text |-> s],
                       [op |-> "input", el |-> i, by |-> a, text |-> <<>>],
                       [op |-> "change", el |-> i, by |-> a, text |-> <<>>] >>]_vars

\* C6 happens: a run filled the input inside the image's form, the second
\* of the page, with the solved text
C6_Witness ==
  \E a \in Ids :
    /\ pc[a] = "done"
    /\ reply[a] = [kind |-> "solution", text |-> <<"A", "B">>]
    /\ Len(page.inputs) = 2
    /\ inputValue[2] = <<"A", "B">>
    /\ inputValue[1] = <<>>
    /\ Len(EventsBy(a, domLog)) = 3

\* C10: a run that obtains no solution writes no input and dispatches no
\* event; a run writes at most once; inputs change only by the fill of a
\* run whose reply is a solution
C10_NoSolutionNoWrite ==
  /\ [](\A a \in Ids :
          /\ (pc[a] \in {"done", "answered"} /\ reply[a].kind # "solution")
               => EventsBy(a, domLog) = <<>>
          /\ Cardinality({j \in 1..Len(domLog) :
                            domLog[j].by = a /\ domLog[j].op = "value"}) <= 1
          /\ pc[a] \notin {"done", "answered"} => EventsBy(a, domLog) = <<>>)
  /\ [](inputValue = applyLog([i \in 1..Len(page.inputs) |-> <<>>], domLog))
  /\ [][(inputValue' # inputValue \/ domLog' # domLog)
          => \E a \in Ids :
               /\ pc[a] = "replying" /\ pc'[a] = "done"
               /\ sent[a][1].kind = "solution"
               /\ EventsBy(a, domLog) = <<>>]_vars

\* C10 happens: a run ended on an {error} reply and another on a failed
\* round trip, and nothing was written
C10_Witness ==
  \E a, b \in Ids :
    /\ pc[a] \in {"done", "answered"} /\ reply[a].kind = "error"
    /\ pc[b] \in {"done", "answered"} /\ reply[b].kind \in {"undefined", "rejected"}
    /\ domLog = <<>>
    /\ \A i \in 1..Len(page.inputs) : inputValue[i] = <<>>
    /\ findCaptcha(page).found

\* C3: a findAndSolveCaptcha message is answered {status: 'completed'}, once,
\* after its run has finished and never before; the run writes nothing
\* after the answer; and every such message is answered, when the pending
\* operations complete
C3_AnsweredAfterCycle ==
  /\ [](\A a \in Ids :
          /\ trigSent[a] # <<>>
               => (kind[a] = "trigger" /\ pc[a] = "answered"
                   /\ trigSent[a] = <<"completed">>)
          /\ kind[a] = "load" => trigSent[a] = <<>>)
  /\ [][\A a \in Ids :
          /\ trigSent'[a] # trigSent[a] => pc[a] = "done"
          /\ trigSent[a] # <<>>
               => (EventsBy(a, domLog') = EventsBy(a, domLog) /\ pc'[a] = pc[a])]_vars
  /\ \A a \in Ids : (kind[a] = "trigger") ~> (trigSent[a] = <<"completed">>)

\* C3 happens: one trigger was answered after its run filled the input,
\* another after a run that failed
C3_Witness ==
  \E a, b \in Ids :
    /\ trigSent[a] = <<"completed">> /\ Len(EventsBy(a, domLog)) = 3
    /\ trigSent[b] = <<"completed">> /\ reply[b].kind = "error"

=============================================================================
